---- MODULE Spec2Model ----
(***************************************************************************)
(* A model of the spreadsheet analysis tool (one Streamlit script):        *)
(* load_and_clean_data, optimize_dtypes, preprocess_data,                   *)
(* parse_prompt_optimized, apply_filters_optimized and the analysis request *)
(* of main.                                                                 *)
(*                                                                          *)
(* Text is a sequence of characters.  TLA+ strings are ASCII, so a Chinese  *)
(* character is written as its pinyin syllable with the tone number         *)
(* ("xiao1" is the first character of the column name "xiao1 shou4 e2",     *)
(* sales; "xiao3" is the middle character of the keyword "zui4 xiao3 zhi2", *)
(* minimum) and a digit as itself.  `x in prompt` of the source is the      *)
(* contiguous-subsequence test Contains.                                    *)
(*                                                                          *)
(* A table cell is <<>> (null: NaN, NaT, None) or <<v>>.                    *)
(***************************************************************************)
EXTENDS Integers, Sequences, FiniteSets, TLC

VARIABLES
    \* parse_prompt_optimized and its arguments
    prompt, numeric_cols, category_cols, date_cols, parsed, parse_pc,
    \* apply_filters_optimized: its arguments, its result, the result of the
    \* call before, the calls made, and what RandomState(42) draws for a
    \* frame of each length
    df, filters, target_col, filtered_df, previous_df, calls, rs42,
    \* the analysis request of main: where it stands, the error shown, the
    \* stages executed, the other fields of the plan and the result table
    pc, error, executed, group_col, stat_type, result_df,
    \* preprocess_data: the tables it returned, run after run
    cleaned,
    \* load_and_clean_data: its argument, the loop index, df_list, the files
    \* warned about, where the call stands and what it returned
    uploaded_files, file_i, df_list, warnings, load_pc, loaded,
    \* the script runs (sessions) that share the process-wide cache of the two
    \* cached functions
    session, load_cache, parse_cache

parseVars == <<prompt, numeric_cols, category_cols, date_cols, parsed, parse_pc>>

filterVars == <<df, filters, target_col, filtered_df, previous_df, calls, rs42>>

mainVars == <<pc, error, executed, group_col, stat_type, result_df>>

loadVars == <<uploaded_files, file_i, df_list, warnings, load_pc, loaded>>

cacheVars == <<session, load_cache, parse_cache>>

vars == <<parseVars, filterVars, mainVars, cleaned, loadVars, cacheVars>>

-----------------------------------------------------------------------------
(* Bounds of the model *)

\* A prompt is the concatenation of at most MaxFrags fragments.
MaxFrags == 3

\* A table has at most MaxRows rows.
MaxRows == 4

\* The ceiling on the rows handed to a chart.  The source sets 5000; the code
\* only compares a row count with it and samples that many rows, so the
\* model scales it down to sit below MaxRows.
MAX_CHART_POINTS == 3

\* A function is called at most MaxCalls times on its arguments.
MaxCalls == 2

\* At most MaxFiles files are uploaded; a file has at most MaxFileRows rows.
MaxFiles == 3
MaxFileRows == 1

\* The script runs that share the cache at the same time.
NumSessions == 2

-----------------------------------------------------------------------------
(* Text *)

Digits == {"0", "1", "2", "3", "4", "5", "6", "7", "8", "9"}

IsDigit(c) == c \in Digits

DigitVal(c) ==
    CASE c = "0" -> 0 [] c = "1" -> 1 [] c = "2" -> 2 [] c = "3" -> 3
      [] c = "4" -> 4 [] c = "5" -> 5 [] c = "6" -> 6 [] c = "7" -> 7
      [] c = "8" -> 8 [] c = "9" -> 9

\* int(s) of a string of digits
RECURSIVE IntOf(_)
IntOf(s) ==
    IF s = <<>> THEN 0
    ELSE 10 * IntOf(SubSeq(s, 1, Len(s) - 1)) + DigitVal(s[Len(s)])

\* sub in text
Contains(sub, text) ==
    \E i \in 0..(Len(text) - Len(sub)) : SubSeq(text, i + 1, i + Len(sub)) = sub

\* Python's None
None == <<"None">>

\* Names and keywords of the source
XiaoShouE    == <<"xiao1", "shou4", "e2">>
LiRun        == <<"li4", "run4">>
DiQu         == <<"di4", "qu1">>
ChanPin      == <<"chan3", "pin3">>
RiQi         == <<"ri4", "qi1">>
ShiJian      == <<"shi2", "jian1">>
LaiYuanWenJian == <<"lai2", "yuan2", "wen2", "jian4">>
Nian         == "nian2"
Yue          == "yue4"
ZuiGao       == <<"zui4", "gao1">>
ZuiDi        == <<"zui4", "di1">>
Ge           == "ge4"

chart_map == <<
    <<<<"zhu4", "zhuang4", "tu2">>, "bar">>,
    <<<<"zhe2", "xian4", "tu2">>, "line">>,
    <<<<"bing3", "tu2">>, "pie">>,
    <<<<"san4", "dian3", "tu2">>, "scatter">>,
    <<<<"xiang1", "xian4", "tu2">>, "box">> >>

StatMapReordered == <<
    <<<<"zong3", "he2">>, "sum">>,
    <<<<"ping2", "jun1", "zhi2">>, "mean">>,
    <<<<"jun1", "zhi2">>, "mean">>,
    <<<<"zhong1", "wei4", "shu4">>, "median">>,
    <<<<"zui4", "xiao3", "zhi2">>, "min">>,
    <<<<"zui4", "da4", "zhi2">>, "max">>,
    <<<<"shu4", "liang4">>, "count">>,
    <<<<"ji4", "shu4">>, "count">> >>

stat_map == <<
    <<<<"zong3", "he2">>, "sum">>,
    <<<<"ping2", "jun1", "zhi2">>, "mean">>,
    <<<<"jun1", "zhi2">>, "mean">>,
    <<<<"zhong1", "wei4", "shu4">>, "median">>,
    <<<<"zui4", "da4", "zhi2">>, "max">>,
    <<<<"zui4", "xiao3", "zhi2">>, "min">>,
    <<<<"shu4", "liang4">>, "count">>,
    <<<<"ji4", "shu4">>, "count">> >>

-----------------------------------------------------------------------------
(* parse_prompt_optimized *)

\* for col in cols: if col in prompt: return col  (else None)
RECURSIVE LastColIn(_, _, _)
LastColIn(cols, text, i) ==
    IF i > Len(cols) THEN None
    ELSE LET later == LastColIn(cols, text, i + 1)
         IN  IF later # None THEN later
             ELSE IF Contains(cols[i], text) THEN cols[i] ELSE None

RECURSIVE FirstColIn(_, _, _)
FirstColIn(cols, text, i) ==
    IF i > Len(cols) THEN None
    ELSE IF Contains(cols[i], text) THEN cols[i]
    ELSE FirstColIn(cols, text, i + 1)

\* for key, val in table.items(): if key in prompt: return val  (else dflt)
RECURSIVE FirstKeyIn(_, _, _, _)
FirstKeyIn(table, text, dflt, i) ==
    IF i > Len(table) THEN dflt
    ELSE IF Contains(table[i][1], text) THEN table[i][2]
    ELSE FirstKeyIn(table, text, dflt, i + 1)

\* re.search(r"(\d{4})年", text): the start of the leftmost match, 0 if none
YearMatchAt(text, i) ==
    /\ i + 4 <= Len(text)
    /\ \A k \in 0..3 : IsDigit(text[i + k])
    /\ text[i + 4] = Nian

YearSearch(text) ==
    LET S == {i \in 1..Len(text) : YearMatchAt(text, i)}
    IN  IF S = {} THEN 0 ELSE CHOOSE i \in S : \A j \in S : i <= j

\* re.search(r"(\d{1,2})月", text): the number of digits matched at i, 0 if none
MonthDigitsAt(text, i) ==
    IF i + 2 <= Len(text) /\ IsDigit(text[i]) /\ IsDigit(text[i + 1])
       /\ text[i + 2] = Yue
    THEN 2
    ELSE IF i + 1 <= Len(text) /\ IsDigit(text[i]) /\ text[i + 1] = Yue
    THEN 1
    ELSE 0

MonthSearch(text) ==
    LET S == {i \in 1..Len(text) : MonthDigitsAt(text, i) > 0}
    IN  IF S = {} THEN 0 ELSE CHOOSE i \in S : \A j \in S : i <= j

\* re.search(word + r"(\d+)个", text): the digits matched at i, <<>> if none
RECURSIVE DigitRun(_, _)
DigitRun(text, i) ==
    IF i <= Len(text) /\ IsDigit(text[i])
    THEN <<text[i]>> \o DigitRun(text, i + 1)
    ELSE <<>>

RankDigitsAt(word, text, i) ==
    IF i + Len(word) - 1 <= Len(text)
       /\ SubSeq(text, i, i + Len(word) - 1) = word
    THEN LET run == DigitRun(text, i + Len(word))
             j   == i + Len(word) + Len(run)
         IN  IF run # <<>> /\ j <= Len(text) /\ text[j] = Ge THEN run ELSE <<>>
    ELSE <<>>

RankSearch(word, text) ==
    LET S == {i \in 1..Len(text) : RankDigitsAt(word, text, i) # <<>>}
    IN  IF S = {} THEN 0 ELSE CHOOSE i \in S : \A j \in S : i <= j

\* the date filters: for col in date_cols: if col in prompt: ...; break
DateFiltersOf(col, text) ==
    LET y == YearSearch(text)
        m == MonthSearch(text)
    IN  (IF y > 0
         THEN << <<col, "year", IntOf(SubSeq(text, y, y + 3))>> >>
         ELSE <<>>)
        \o
        (IF m > 0
         THEN << <<col, "month",
                   IntOf(SubSeq(text, m, m + MonthDigitsAt(text, m) - 1))>> >>
         ELSE <<>>)

RECURSIVE DateFiltersFrom(_, _, _)
DateFiltersFrom(dcols, text, i) ==
    IF i > Len(dcols) THEN <<>>
    ELSE IF Contains(dcols[i], text)
         THEN DateFiltersOf(dcols[i], text) \o DateFiltersFrom(dcols, text, i + 1)
         ELSE DateFiltersFrom(dcols, text, i + 1)

DateFiltersNoBreak(dcols, text) == DateFiltersFrom(dcols, text, 1)

DateFilters(dcols, text) ==
    LET col == FirstColIn(dcols, text, 1)
    IN  IF col = None THEN <<>> ELSE DateFiltersOf(col, text)

RankFilters(text) ==
    LET t == RankSearch(ZuiGao, text)
        b == RankSearch(ZuiDi, text)
    IN  (IF t > 0 THEN << <<"top_n", IntOf(RankDigitsAt(ZuiGao, text, t))>> >>
         ELSE <<>>)
        \o
        (IF b > 0 THEN << <<"bottom_n", IntOf(RankDigitsAt(ZuiDi, text, b))>> >>
         ELSE <<>>)

parse_prompt_optimized(text, ncols, ccols, dcols) ==
    [target  |-> FirstColIn(ncols, text, 1),
     group   |-> FirstColIn(ccols \o dcols \o <<LaiYuanWenJian>>, text, 1),
     chart   |-> FirstKeyIn(chart_map, text, "None", 1),
     stat    |-> FirstKeyIn(stat_map, text, "sum", 1),
     filters |-> DateFilters(dcols, text) \o RankFilters(text)]

-----------------------------------------------------------------------------
(* Tables.  A row is [index, cells]: its label in the frame's index and a   *)
(* function from column names to cells.  A datetime value is [year, month]. *)

Cell(row, col) == row.cells[col]

IsNull(c) == c = <<>>

\* filtered_df[filtered_df[col].dt.year == val]: NaT compares unequal
YearIs(row, col, val) == ~IsNull(Cell(row, col)) /\ Cell(row, col)[1].year = val

MonthIs(row, col, val) == ~IsNull(Cell(row, col)) /\ Cell(row, col)[1].month = val

Metric(row, col) == Cell(row, col)[1]

\* rows.nlargest(n, col) / rows.nsmallest(n, col): the n first rows of a
\* stable sort by col (descending / ascending), keep="first"
RECURSIVE Best(_, _, _, _)
Best(rows, n, col, sign) ==
    IF n = 0 \/ rows = <<>> THEN <<>>
    ELSE LET i == CHOOSE i \in 1..Len(rows) :
                    /\ \A j \in 1..Len(rows) :
                          sign * Metric(rows[j], col) <= sign * Metric(rows[i], col)
                    /\ \A j \in 1..(i - 1) :
                          Metric(rows[j], col) # Metric(rows[i], col)
             rest == SubSeq(rows, 1, i - 1) \o SubSeq(rows, i + 1, Len(rows))
         IN  <<rows[i]>> \o Best(rest, n - 1, col, sign)

nlargest(rows, n, col) == Best(rows, n, col, 1)

nsmallest(rows, n, col) == Best(rows, n, col, 0 - 1)

\* isinstance(filt, tuple): every filter parse_prompt_optimized builds, the
\* two-element rank filters included, is a Python tuple
IsTuple(filt) == TRUE

\* col, filt_type, val = filt  raises ValueError unless filt has 3 elements
UnpacksToThree(filt) == Len(filt) = 3

\* the loop over filters: [raised, rows]
RECURSIVE FilterLoop(_, _, _, _)
FilterLoop(rows, fs, target, i) ==
    IF i > Len(fs) THEN [raised |-> FALSE, rows |-> rows]
    ELSE LET filt == fs[i]
         IN  IF IsTuple(filt)
             THEN IF ~UnpacksToThree(filt)
                  THEN [raised |-> TRUE, rows |-> <<>>]
                  ELSE IF filt[2] = "year"
                  THEN FilterLoop(SelectSeq(rows, LAMBDA r : YearIs(r, filt[1], filt[3])),
                                  fs, target, i + 1)
                  ELSE IF filt[2] = "month"
                  THEN FilterLoop(SelectSeq(rows, LAMBDA r : MonthIs(r, filt[1], filt[3])),
                                  fs, target, i + 1)
                  ELSE FilterLoop(rows, fs, target, i + 1)
             ELSE IF filt[1] = "top_n"
             THEN FilterLoop(nlargest(rows, filt[2], target), fs, target, i + 1)
             ELSE IF filt[1] = "bottom_n"
             THEN FilterLoop(nsmallest(rows, filt[2], target), fs, target, i + 1)
             ELSE FilterLoop(rows, fs, target, i + 1)

\* if len(filtered_df) > MAX_CHART_POINTS
OverCeilingByTwo(n) == n > MAX_CHART_POINTS + 1

OverCeiling(n) == n > MAX_CHART_POINTS

\* the positions sample(n=k) may take in a frame of len rows: k distinct
\* positions, in the order drawn
Draws(len, k) ==
    {d \in [1..k -> 1..len] : \A a, b \in 1..k : d[a] = d[b] => a = b}

\* sample(n=k, random_state=42): the seed fixes the draw for a frame length;
\* memo holds the draws already seen, <<>> for a length not drawn yet
SeededDraws(memo, len, k) ==
    IF memo[len] # <<>> THEN {memo[len]} ELSE Draws(len, k)

NoDraws == [len \in 0..(MaxRows + 1) |-> <<>>]

\* apply_filters_optimized(df, filters, target_col): the outcomes, each the
\* table returned (or the ValueError raised) and the draws seen
apply_filters_optimized(table, fs, target, memo) ==
    LET narrowed == FilterLoop(table.rows, fs, target, 1)
        len      == Len(narrowed.rows)
    IN  IF narrowed.raised
        THEN {[result |-> [raised |-> TRUE, rows |-> <<>>], memo |-> memo]}
        ELSE IF OverCeiling(len)
        THEN {[result |-> [raised |-> FALSE,
                           rows |-> [k \in 1..MAX_CHART_POINTS |-> narrowed.rows[d[k]]]],
               memo |-> [memo EXCEPT ![len] = d]] :
                 d \in SeededDraws(memo, len, MAX_CHART_POINTS)}
        ELSE {[result |-> narrowed, memo |-> memo]}

-----------------------------------------------------------------------------
(* load_and_clean_data.  A file is [name, fails, nrows, cols]: the stage of *)
(* the try block that raises on it ("none" when none does), and the rows    *)
(* and columns of its frame after preprocess_data.                          *)

Stages == {"none", "read", "optimize_dtypes", "preprocess_data"}

Raises(file) == file.fails # "none"

\* temp_df after lines 44-64: each row carries its source file
FileFrame(file) ==
    [j \in 1..file.nrows |-> [file |-> file.name, row |-> j]]

\* the index of the file the loop turns to after an exception: continue
AfterFailureBreak(files, i) == Len(files) + 1

AfterFailure(files, i) == i + 1

\* one iteration of the loop on files[i]: [i, list, warns] afterwards
LoadStep(files, i, list, warns) ==
    IF Raises(files[i])
    THEN [i |-> AfterFailure(files, i), list |-> list,
          warns |-> Append(warns, files[i].name)]
    ELSE [i |-> i + 1, list |-> Append(list, files[i]), warns |-> warns]

\* pd.concat(df_list, ignore_index=True): the rows one frame after the other,
\* renumbered; the columns in the order they first appear
RECURSIVE ConcatRows(_)
ConcatRows(list) ==
    IF list = <<>> THEN <<>> ELSE FileFrame(Head(list)) \o ConcatRows(Tail(list))

RECURSIVE ConcatCols(_)
ConcatCols(list) ==
    IF list = <<>> THEN <<>>
    ELSE LET before == ConcatCols(SubSeq(list, 1, Len(list) - 1))
             seen   == {before[i].name : i \in 1..Len(before)}
         IN  before \o SelectSeq(list[Len(list)].cols, LAMBDA c : c.name \notin seen)

\* if not df_list: return None; else the concatenated frame
LoadResult(list) ==
    IF list = <<>> THEN [is_none |-> TRUE, cols |-> <<>>, rows |-> <<>>]
    ELSE [is_none |-> FALSE, cols |-> ConcatCols(list), rows |-> ConcatRows(list)]

RECURSIVE LoadLoop(_, _, _, _)
LoadLoop(files, i, list, warns) ==
    IF i > Len(files) THEN [value |-> LoadResult(list), warns |-> warns]
    ELSE LET st == LoadStep(files, i, list, warns)
         IN  LoadLoop(files, st.i, st.list, st.warns)

load_and_clean_data(files) == LoadLoop(files, 1, <<>>, <<>>)

NotLoaded == [is_none |-> TRUE, cols |-> <<>>, rows |-> <<>>]

LoadIdle ==
    /\ uploaded_files = <<>>
    /\ file_i = 0
    /\ df_list = <<>>
    /\ warnings = <<>>
    /\ load_pc = "idle"
    /\ loaded = NotLoaded

-----------------------------------------------------------------------------
(* @cache_data(ttl=CACHE_TTL): a cache per function, keyed by the hash of    *)
(* all the arguments of the call.  A cache is a set of [key, value]; an      *)
(* entry leaves it when its TTL has run out.                                 *)

\* the key of load_and_clean_data(uploaded_files)
LoadKey(files) == files

\* the key of parse_prompt_optimized(prompt, numeric_cols, category_cols, date_cols)
ParseKeyPromptOnly(text, ncols, ccols, dcols) == <<text, <<>>, <<>>, <<>>>>

ParseKey(text, ncols, ccols, dcols) == <<text, ncols, ccols, dcols>>

Cached(cache, key) == \E e \in cache : e.key = key

Read(cache, key) == (CHOOSE e \in cache : e.key = key).value

\* the last writer wins: the entry of the key is replaced
Write(cache, key, value) ==
    {e \in cache : e.key # key} \cup {[key |-> key, value |-> value]}

CacheIdle ==
    /\ session = <<>>
    /\ load_cache = {}
    /\ parse_cache = {}

-----------------------------------------------------------------------------
(* The parts of the state a specification leaves alone *)

NotCalled == [raised |-> FALSE, rows |-> <<>>]

ParseIdle ==
    /\ prompt = <<>>
    /\ numeric_cols = <<>>
    /\ category_cols = <<>>
    /\ date_cols = <<>>
    /\ parsed = None
    /\ parse_pc = "idle"

NoResult == <<[key |-> <<>>, value |-> <<>>]>>

MainIdle ==
    /\ CacheIdle
    /\ LoadIdle
    /\ cleaned = <<>>
    /\ pc = "idle"
    /\ error = ""
    /\ executed = {}
    /\ group_col = None
    /\ stat_type = ""
    /\ result_df = NoResult

FilterIdle ==
    /\ df = [cols |-> <<>>, rows |-> <<>>]
    /\ filters = <<>>
    /\ target_col = None
    /\ filtered_df = NotCalled
    /\ previous_df = NotCalled
    /\ calls = 0
    /\ rs42 = NoDraws

-----------------------------------------------------------------------------
(* Prompts: concatenations of at most MaxFrags fragments of a family *)

RECURSIVE Concat(_)
Concat(fs) == IF fs = <<>> THEN <<>> ELSE Head(fs) \o Concat(Tail(fs))

Texts(frags) ==
    {Concat(fs) : fs \in UNION {[1..n -> frags] : n \in 0..MaxFrags}}

De == <<"de5">>

StatFrags ==
    {stat_map[i][1] : i \in 1..Len(stat_map)} \cup {De}

ColumnFrags ==
    {XiaoShouE, LiRun, DiQu, ChanPin, RiQi, ShiJian, LaiYuanWenJian, De}

DateFrags ==
    {RiQi, ShiJian, <<"2", "0", "2", "5", Nian>>, <<"1", Yue>>, <<"1">>,
     <<"2", "0", "2", "5", Nian, "1", Yue>>,
     ZuiGao \o <<"2", Ge>>, ZuiDi \o <<"1", Ge>>, ZuiGao, De}

Prompts(families) == UNION {Texts(frags) : frags \in families}

\* Column catalogues (numeric, categorical, date), as main classifies them
Catalogues ==
    { <<<<XiaoShouE, LiRun>>, <<DiQu, ChanPin, LaiYuanWenJian>>, <<RiQi, ShiJian>>>>,
      <<<<LiRun, XiaoShouE>>, <<ChanPin, DiQu, LaiYuanWenJian>>, <<ShiJian, RiQi>>>>,
      <<<<XiaoShouE>>, <<LaiYuanWenJian>>, <<RiQi>>>>,
      <<<<LiRun>>, <<DiQu>>, <<>>>> }

ParseInit ==
    /\ prompt \in Prompts({StatFrags, ColumnFrags, DateFrags})
    /\ \E c \in Catalogues :
          /\ numeric_cols = c[1]
          /\ category_cols = c[2]
          /\ date_cols = c[3]
    /\ parsed = None
    /\ parse_pc = "call"
    /\ FilterIdle
    /\ MainIdle

ParsePrompt ==
    /\ parse_pc = "call"
    /\ parsed' = parse_prompt_optimized(prompt, numeric_cols, category_cols, date_cols)
    /\ parse_pc' = "returned"
    /\ UNCHANGED <<prompt, numeric_cols, category_cols, date_cols>>
    /\ UNCHANGED <<filterVars, mainVars, cleaned, loadVars, cacheVars>>

ParseNext == ParsePrompt

SpecParse == ParseInit /\ [][ParseNext]_vars

-----------------------------------------------------------------------------
(* apply_filters_optimized on any table and any filter list the parser can  *)
(* build (SpecFilter)                                                       *)

Date(y, m) == <<[year |-> y, month |-> m]>>

FilterRowKinds ==
    { (RiQi :> Date(2025, 1)) @@ (DiQu :> <<"E">>) @@ (XiaoShouE :> <<3>>),
      (RiQi :> Date(2024, 1)) @@ (DiQu :> <<"N">>) @@ (XiaoShouE :> <<5>>),
      (RiQi :> Date(2025, 2)) @@ (DiQu :> <<"E">>) @@ (XiaoShouE :> <<1>>),
      (RiQi :> <<>>)          @@ (DiQu :> <<>>)    @@ (XiaoShouE :> <<4>>) }

FilterColumns ==
    << [name |-> RiQi, dtype |-> "datetime64"],
       [name |-> DiQu, dtype |-> "object"],
       [name |-> XiaoShouE, dtype |-> "int32"] >>

Indexed(cellrows) == [i \in 1..Len(cellrows) |-> [index |-> i, cells |-> cellrows[i]]]

FilterTables(kinds) ==
    { [cols |-> FilterColumns, rows |-> Indexed(rs)] :
        rs \in UNION {[1..n -> kinds] : n \in 0..MaxRows} }

DateParts ==
    { <<>>,
      << <<RiQi, "year", 2025>> >>,
      << <<RiQi, "month", 1>> >>,
      << <<RiQi, "year", 2025>>, <<RiQi, "month", 1>> >> }

RankParts ==
    { <<>> }
    \cup { << <<"top_n", n>> >> : n \in 1..2 }
    \cup { << <<"bottom_n", n>> >> : n \in 1..2 }
    \cup { << <<"top_n", 2>>, <<"bottom_n", 1>> >> }

FilterLists == { d \o r : d \in DateParts, r \in RankParts }

FilterInit ==
    /\ ParseIdle
    /\ df \in FilterTables(FilterRowKinds)
    /\ filters \in FilterLists
    /\ target_col = XiaoShouE
    /\ filtered_df = NotCalled
    /\ previous_df = NotCalled
    /\ calls = 0
    /\ rs42 = NoDraws
    /\ MainIdle

CallApplyFilters ==
    /\ calls < MaxCalls
    /\ \E o \in apply_filters_optimized(df, filters, target_col, rs42) :
          /\ filtered_df' = o.result
          /\ rs42' = o.memo
    /\ previous_df' = filtered_df
    /\ calls' = calls + 1
    /\ UNCHANGED <<df, filters, target_col>>
    /\ UNCHANGED <<parseVars, mainVars, cleaned, loadVars, cacheVars>>

FilterNext == CallApplyFilters

SpecFilter == FilterInit /\ [][FilterNext]_vars

-----------------------------------------------------------------------------
(* The aggregation of main: groupby(group_col)[target_col].agg([...])       *)
(* .round(2).reset_index(), then the column of the requested statistic.     *)
(* A statistic is <<>> (NaN) or <<h>>, h the value in hundredths.           *)

\* the order of the text values of the model, as Python compares strings
Collation == <<"E", "N", "S", "f1", "f2">>

KeyRank(dtype, v) ==
    IF dtype = "datetime64" THEN 12 * v.year + v.month
    ELSE CHOOSE i \in 1..Len(Collation) : Collation[i] = v

DtypeOf(table, col) ==
    LET i == CHOOSE i \in 1..Len(table.cols) : table.cols[i].name = col
    IN  table.cols[i].dtype

\* groupby(): dropna=True keeps the rows with a null key out of every group
GroupKeys(rows, col) ==
    {Cell(rows[i], col) : i \in {j \in 1..Len(rows) : ~IsNull(Cell(rows[j], col))}}

\* sort=True: the keys in ascending order
RECURSIVE SortKeys(_, _)
SortKeys(keys, dtype) ==
    IF keys = {} THEN <<>>
    ELSE LET k == CHOOSE k \in keys :
                    \A o \in keys : KeyRank(dtype, k[1]) <= KeyRank(dtype, o[1])
         IN  <<k>> \o SortKeys(keys \ {k}, dtype)

\* the non-null values of col in the rows of the group
GroupValues(rows, col, key, target) ==
    LET g == SelectSeq(rows, LAMBDA r : Cell(r, col) = key /\ ~IsNull(Cell(r, target)))
    IN  [i \in 1..Len(g) |-> Metric(g[i], target)]

RECURSIVE SumOf(_)
SumOf(vs) == IF vs = <<>> THEN 0 ELSE Head(vs) + SumOf(Tail(vs))

RECURSIVE Sorted(_)
Sorted(vs) ==
    IF vs = <<>> THEN <<>>
    ELSE LET i == CHOOSE i \in 1..Len(vs) : \A j \in 1..Len(vs) : vs[i] <= vs[j]
         IN  <<vs[i]>> \o Sorted(SubSeq(vs, 1, i - 1) \o SubSeq(vs, i + 1, Len(vs)))

\* round(p / q, 2) in hundredths: to the nearest, a tie to the even one
RoundHundredths(p, q) ==
    LET f == (100 * p) \div q
        r == (100 * p) % q
    IN  IF 2 * r < q THEN f
        ELSE IF 2 * r > q THEN f + 1
        ELSE IF f % 2 = 0 THEN f ELSE f + 1

Statistic(stat, vs) ==
    LET n == Len(vs)
        o == Sorted(vs)
    IN  CASE stat = "sum"    -> <<100 * SumOf(vs)>>
          [] stat = "count"  -> <<100 * n>>
          [] stat = "mean"   -> IF n = 0 THEN <<>> ELSE <<RoundHundredths(SumOf(vs), n)>>
          [] stat = "median" ->
                IF n = 0 THEN <<>>
                ELSE IF n % 2 = 1 THEN <<100 * o[(n + 1) \div 2]>>
                ELSE <<RoundHundredths(o[n \div 2] + o[n \div 2 + 1], 2)>>
          [] stat = "max"    -> IF n = 0 THEN <<>> ELSE <<100 * o[n]>>
          [] stat = "min"    -> IF n = 0 THEN <<>> ELSE <<100 * o[1]>>

\* result_df: one row [key, value] per group
Aggregate(rows, dtype, col, target, stat) ==
    LET keys == SortKeys(GroupKeys(rows, col), dtype)
    IN  [i \in 1..Len(keys) |->
            [key |-> keys[i],
             value |-> Statistic(stat, GroupValues(rows, col, keys[i], target))]]

Stats == {"sum", "mean", "median", "max", "min", "count"}

-----------------------------------------------------------------------------
(* The analysis request of main *)

\* numeric_cols, category_cols, date_cols: select_dtypes, in column order
SelectDtypes(table, include) ==
    LET picked == SelectSeq(table.cols, LAMBDA c : c.dtype \in include)
    IN  [i \in 1..Len(picked) |-> picked[i].name]

NumericDtypes == {"int32", "float32", "int64", "float64"}
CategoryDtypes == {"category", "object"}
DateDtypes == {"datetime64"}

\* `not x` of a column name or None
AlwaysTruthy(x) == FALSE

Falsy(x) == x = None \/ x = <<>>

SalesTable ==
    [cols |-> << [name |-> RiQi, dtype |-> "datetime64"],
                 [name |-> DiQu, dtype |-> "object"],
                 [name |-> XiaoShouE, dtype |-> "int32"],
                 [name |-> LiRun, dtype |-> "int32"],
                 [name |-> LaiYuanWenJian, dtype |-> "object"] >>,
     rows |-> Indexed(<<
        (RiQi :> Date(2025, 1)) @@ (DiQu :> <<"E">>) @@ (XiaoShouE :> <<12>>)
            @@ (LiRun :> <<2>>) @@ (LaiYuanWenJian :> <<"f1">>),
        (RiQi :> Date(2025, 1)) @@ (DiQu :> <<"N">>) @@ (XiaoShouE :> <<8>>)
            @@ (LiRun :> <<1>>) @@ (LaiYuanWenJian :> <<"f1">>),
        (RiQi :> Date(2024, 2)) @@ (DiQu :> <<"E">>) @@ (XiaoShouE :> <<5>>)
            @@ (LiRun :> <<1>>) @@ (LaiYuanWenJian :> <<"f2">>),
        (RiQi :> <<>>) @@ (DiQu :> <<>>) @@ (XiaoShouE :> <<15>>)
            @@ (LiRun :> <<3>>) @@ (LaiYuanWenJian :> <<"f2">>) >>)]

ProfitTable ==
    [cols |-> << [name |-> LiRun, dtype |-> "float32"],
                 [name |-> XiaoShouE, dtype |-> "int64"],
                 [name |-> LaiYuanWenJian, dtype |-> "object"] >>,
     rows |-> Indexed(<<
        (LiRun :> <<2>>) @@ (XiaoShouE :> <<12>>) @@ (LaiYuanWenJian :> <<"f1">>),
        (LiRun :> <<1>>) @@ (XiaoShouE :> <<8>>) @@ (LaiYuanWenJian :> <<"f2">>) >>)]

MainTables == {SalesTable, ProfitTable}

RequestFrags ==
    {XiaoShouE, LiRun, DiQu, RiQi, LaiYuanWenJian, <<"2", "0", "2", "5", Nian>>,
     ZuiGao \o <<"2", Ge>>, <<"jun1", "zhi2">>, De}

\* the button is pressed on a non-empty prompt
Init ==
    /\ df \in MainTables
    /\ numeric_cols = SelectDtypes(df, NumericDtypes)
    /\ category_cols = SelectDtypes(df, CategoryDtypes)
    /\ date_cols = SelectDtypes(df, DateDtypes)
    /\ prompt \in Texts(RequestFrags) \ {<<>>}
    /\ parsed = None
    /\ parse_pc = "call"
    /\ filters = <<>>
    /\ target_col = None
    /\ filtered_df = NotCalled
    /\ previous_df = NotCalled
    /\ calls = 0
    /\ rs42 = NoDraws
    /\ pc = "button"
    /\ error = ""
    /\ executed = {}
    /\ group_col = None
    /\ stat_type = ""
    /\ result_df = NoResult
    /\ cleaned = <<>>
    /\ LoadIdle
    /\ CacheIdle

\* parsed = parse_prompt_optimized(...); target_col = parsed["target"]; ...
MainParse ==
    /\ pc = "button"
    /\ LET p == parse_prompt_optimized(prompt, numeric_cols, category_cols, date_cols)
       IN  /\ parsed' = p
           /\ target_col' = p.target
           /\ group_col' = p.group
           /\ stat_type' = p.stat
           /\ filters' = p.filters
    /\ parse_pc' = "returned"
    /\ pc' = "parsed"
    /\ UNCHANGED <<prompt, numeric_cols, category_cols, date_cols>>
    /\ UNCHANGED <<df, filtered_df, previous_df, calls, rs42>>
    /\ UNCHANGED <<error, executed, result_df, cleaned, loadVars, cacheVars>>

\* if not target_col: st.error(...); return
ValidateMetric ==
    /\ pc = "parsed"
    /\ IF Falsy(target_col)
       THEN error' = "NO_METRIC_FOUND" /\ pc' = "done"
       ELSE error' = error /\ pc' = "metric_ok"
    /\ UNCHANGED <<parseVars, filterVars, executed, group_col, stat_type, result_df, cleaned, loadVars, cacheVars>>

\* if not group_col: st.error(...); return
ValidateDimension ==
    /\ pc = "metric_ok"
    /\ IF Falsy(group_col)
       THEN error' = "NO_DIMENSION_FOUND" /\ pc' = "done"
       ELSE error' = error /\ pc' = "validated"
    /\ UNCHANGED <<parseVars, filterVars, executed, group_col, stat_type, result_df, cleaned, loadVars, cacheVars>>

\* filtered_df = apply_filters_optimized(df, filters, target_col); the
\* ValueError of a call that raises is not caught: the request ends there
MainApplyFilters ==
    /\ pc = "validated"
    /\ \E o \in apply_filters_optimized(df, filters, target_col, rs42) :
          /\ filtered_df' = o.result
          /\ rs42' = o.memo
          /\ pc' = IF o.result.raised THEN "raised" ELSE "filtered"
    /\ previous_df' = filtered_df
    /\ calls' = calls + 1
    /\ executed' = executed \cup {"filter"}
    /\ UNCHANGED <<df, filters, target_col>>
    /\ UNCHANGED <<parseVars, error, group_col, stat_type, result_df, cleaned, loadVars, cacheVars>>

\* stats_df = filtered_df.groupby(group_col)[target_col].agg(...);
\* result_df = stats_df[[group_col, stat_type]]
MainAggregate ==
    /\ pc = "filtered"
    /\ result_df' = Aggregate(filtered_df.rows, DtypeOf(df, group_col), group_col,
                              target_col, stat_type)
    /\ executed' = executed \cup {"aggregate"}
    /\ pc' = "aggregated"
    /\ UNCHANGED <<parseVars, filterVars, error, group_col, stat_type, cleaned, loadVars, cacheVars>>

\* st.dataframe(result_df) shows the table; then result_df.to_excel(index=False,
\* engine="openpyxl") is called without the excel_writer it requires and
\* raises TypeError, which is not caught
ShowAndExport ==
    /\ pc = "aggregated"
    /\ pc' = "raised"
    /\ UNCHANGED <<parseVars, filterVars, error, executed, group_col, stat_type, result_df, cleaned, loadVars, cacheVars>>

Next ==
    \/ MainParse
    \/ ValidateMetric
    \/ ValidateDimension
    \/ MainApplyFilters
    \/ MainAggregate
    \/ ShowAndExport

Spec == Init /\ [][Next]_vars

-----------------------------------------------------------------------------
(* The aggregation on any narrowed row set (SpecAggregate) *)

AggRowKinds ==
    { (RiQi :> Date(2025, 1)) @@ (DiQu :> <<"E">>) @@ (XiaoShouE :> <<1>>),
      (RiQi :> Date(2025, 2)) @@ (DiQu :> <<"N">>) @@ (XiaoShouE :> <<2>>),
      (RiQi :> Date(2024, 1)) @@ (DiQu :> <<"E">>) @@ (XiaoShouE :> <<2>>),
      (RiQi :> <<>>)          @@ (DiQu :> <<"S">>) @@ (XiaoShouE :> <<3>>),
      (RiQi :> Date(2025, 1)) @@ (DiQu :> <<>>)    @@ (XiaoShouE :> <<2>>) }

AggregateInit ==
    /\ ParseIdle
    /\ df = [cols |-> FilterColumns, rows |-> <<>>]
    /\ filters = <<>>
    /\ target_col = XiaoShouE
    /\ \E rs \in UNION {[1..n -> AggRowKinds] : n \in 0..MaxRows} :
          filtered_df = [raised |-> FALSE, rows |-> Indexed(rs)]
    /\ previous_df = NotCalled
    /\ calls = 1
    /\ rs42 = NoDraws
    /\ pc = "filtered"
    /\ error = ""
    /\ executed = {"filter"}
    /\ group_col \in {DiQu, RiQi}
    /\ stat_type \in Stats
    /\ result_df = NoResult
    /\ cleaned = <<>>
    /\ LoadIdle
    /\ CacheIdle

AggregateNext == MainAggregate

SpecAggregate == AggregateInit /\ [][AggregateNext]_vars

-----------------------------------------------------------------------------
(* preprocess_data *)

ColNames(table) == {table.cols[i].name : i \in 1..Len(table.cols)}

AllNullRow(table, row) == \A c \in ColNames(table) : IsNull(Cell(row, c))

AllNullCol(table, col) == \A i \in 1..Len(table.rows) : IsNull(Cell(table.rows[i], col))

\* df.dropna(how="all", axis=0)
DropNullRows(table) ==
    [table EXCEPT !.rows = SelectSeq(table.rows, LAMBDA r : ~AllNullRow(table, r))]

\* df.dropna(how="all", axis=1)
DropNullCols(table) ==
    LET kept  == SelectSeq(table.cols, LAMBDA c : ~AllNullCol(table, c.name))
        names == {kept[i].name : i \in 1..Len(kept)}
    IN  [cols |-> kept,
         rows |-> [i \in 1..Len(table.rows) |->
                     [index |-> table.rows[i].index,
                      cells |-> [c \in names |-> table.rows[i].cells[c]]]]]

\* df.drop_duplicates(): the first row of each run of equal rows is kept
DropDuplicates(table) ==
    LET keep == {i \in 1..Len(table.rows) :
                    \A j \in 1..(i - 1) : table.rows[j].cells # table.rows[i].cells}
        RECURSIVE pick(_)
        pick(i) ==
            IF i > Len(table.rows) THEN <<>>
            ELSE (IF i \in keep THEN <<table.rows[i]>> ELSE <<>>) \o pick(i + 1)
    IN  [table EXCEPT !.rows = pick(1)]

\* df[col].median(): of the non-null values (<<>> when there is none)
Median(table, col) ==
    LET present == SelectSeq(table.rows, LAMBDA r : ~IsNull(Cell(r, col)))
        vs      == Sorted([i \in 1..Len(present) |-> Metric(present[i], col)])
        n       == Len(vs)
    IN  IF n = 0 THEN <<>>
        ELSE IF n % 2 = 1 THEN <<vs[(n + 1) \div 2]>>
        ELSE <<(vs[n \div 2] + vs[n \div 2 + 1]) \div 2>>

\* for col in df.select_dtypes(include=["int32", "float32"]).columns:
\*     df[col] = df[col].fillna(df[col].median())
FillMedians(table) ==
    LET filled == {table.cols[i].name :
                      i \in {j \in 1..Len(table.cols) :
                                table.cols[j].dtype \in {"int32", "float32"}}}
    IN  [table EXCEPT !.rows =
            [i \in 1..Len(table.rows) |->
                [index |-> table.rows[i].index,
                 cells |-> [c \in DOMAIN table.rows[i].cells |->
                              IF c \in filled /\ IsNull(table.rows[i].cells[c])
                              THEN Median(table, c)
                              ELSE table.rows[i].cells[c]]]]]

preprocess_data(table) ==
    FillMedians(DropDuplicates(DropNullCols(DropNullRows(table))))

-----------------------------------------------------------------------------
(* preprocess_data run again on its own result (SpecClean) *)

\* The numeric values are even, so that the median of any of them is whole.
CleanColumns ==
    << [name |-> DiQu, dtype |-> "object"],
       [name |-> XiaoShouE, dtype |-> "float32"],
       [name |-> LiRun, dtype |-> "float32"] >>

CleanRowKinds ==
    { (DiQu :> d) @@ (XiaoShouE :> x) @@ (LiRun :> l) :
        d \in {<<>>, <<"E">>}, x \in {<<>>, <<2>>, <<4>>}, l \in {<<>>, <<2>>} }

CleanInit ==
    /\ ParseIdle
    /\ \E rs \in UNION {[1..n -> CleanRowKinds] : n \in 0..MaxRows} :
          df = [cols |-> CleanColumns, rows |-> Indexed(rs)]
    /\ filters = <<>>
    /\ target_col = None
    /\ filtered_df = NotCalled
    /\ previous_df = NotCalled
    /\ calls = 0
    /\ rs42 = NoDraws
    /\ MainIdle

\* df = preprocess_data(df)
Preprocess ==
    /\ Len(cleaned) < MaxCalls
    /\ cleaned' = Append(cleaned,
                         preprocess_data(IF cleaned = <<>> THEN df
                                         ELSE cleaned[Len(cleaned)]))
    /\ UNCHANGED <<parseVars, filterVars, mainVars, loadVars, cacheVars>>

CleanNext == Preprocess

SpecClean == CleanInit /\ [][CleanNext]_vars

-----------------------------------------------------------------------------
(* Claims about preprocess_data (SpecClean) *)

\* C6: preprocess_data is idempotent: a second run on the result of the
\* first removes no row and no column and changes no value.
C6_PreprocessIdempotent ==
    Len(cleaned) >= 2 => cleaned[2] = cleaned[1]

-----------------------------------------------------------------------------
(* load_and_clean_data on any batch of files (SpecLoad) *)

FileNames == <<"f1", "f2", "f3", "f4">>

Batches(names) ==
    { [i \in 1..Len(f) |-> [name |-> names[i], fails |-> f[i].fails,
                             nrows |-> f[i].nrows, cols |-> FilterColumns]] :
        f \in UNION {[1..n -> [fails : Stages, nrows : 0..MaxFileRows]] :
                        n \in 0..MaxFiles} }

LoadInit ==
    /\ ParseIdle
    /\ FilterIdle
    /\ cleaned = <<>>
    /\ pc = "idle"
    /\ error = ""
    /\ executed = {}
    /\ group_col = None
    /\ stat_type = ""
    /\ result_df = NoResult
    /\ uploaded_files \in Batches(FileNames)
    /\ file_i = 1
    /\ df_list = <<>>
    /\ warnings = <<>>
    /\ load_pc = "loop"
    /\ loaded = NotLoaded
    /\ CacheIdle

\* an iteration whose try block ends: df_list.append(temp_df)
LoadFile ==
    /\ load_pc = "loop"
    /\ file_i <= Len(uploaded_files)
    /\ ~Raises(uploaded_files[file_i])
    /\ LET st == LoadStep(uploaded_files, file_i, df_list, warnings)
       IN  file_i' = st.i /\ df_list' = st.list /\ warnings' = st.warns
    /\ UNCHANGED <<uploaded_files, load_pc, loaded>>
    /\ UNCHANGED <<parseVars, filterVars, mainVars, cleaned, cacheVars>>

\* an iteration that raises: st.warning(...); continue
LoadFileFailed ==
    /\ load_pc = "loop"
    /\ file_i <= Len(uploaded_files)
    /\ Raises(uploaded_files[file_i])
    /\ LET st == LoadStep(uploaded_files, file_i, df_list, warnings)
       IN  file_i' = st.i /\ df_list' = st.list /\ warnings' = st.warns
    /\ UNCHANGED <<uploaded_files, load_pc, loaded>>
    /\ UNCHANGED <<parseVars, filterVars, mainVars, cleaned, cacheVars>>

\* after the loop: return None, or the concatenated frame
LoadReturn ==
    /\ load_pc = "loop"
    /\ file_i > Len(uploaded_files)
    /\ loaded' = LoadResult(df_list)
    /\ load_pc' = "returned"
    /\ UNCHANGED <<uploaded_files, file_i, df_list, warnings>>
    /\ UNCHANGED <<parseVars, filterVars, mainVars, cleaned, cacheVars>>

LoadNext == LoadFile \/ LoadFileFailed \/ LoadReturn

SpecLoad == LoadInit /\ [][LoadNext]_vars

-----------------------------------------------------------------------------
(* Claims about load_and_clean_data (SpecLoad) *)

GoodFiles == {i \in 1..Len(uploaded_files) : uploaded_files[i].fails = "none"}

PositionOf(name) == CHOOSE i \in 1..Len(uploaded_files) : uploaded_files[i].name = name

\* C7: a file that fails is reported alone and the loop goes on: the table
\* returned holds the rows of every file that did not fail, in upload order,
\* and no row of a failed file; the result is None iff every file failed or
\* the batch is empty.
C7_FailedFileSkipped ==
    load_pc = "returned" =>
        LET R == loaded.rows
        IN  /\ loaded.is_none <=> GoodFiles = {}
            /\ \A k \in 1..Len(R) : PositionOf(R[k].file) \in GoodFiles
            /\ \A i \in GoodFiles : \A j \in 1..uploaded_files[i].nrows :
                  Cardinality({k \in 1..Len(R) :
                                 R[k] = [file |-> uploaded_files[i].name, row |-> j]}) = 1
            /\ \A k, l \in 1..Len(R) :
                  k < l =>
                      \/ PositionOf(R[k].file) < PositionOf(R[l].file)
                      \/ R[k].file = R[l].file /\ R[k].row < R[l].row
            /\ {warnings[k] : k \in 1..Len(warnings)}
                  = {uploaded_files[i].name : i \in 1..Len(uploaded_files) \ GoodFiles}
            /\ Len(warnings) = Len(uploaded_files) - Cardinality(GoodFiles)

\* the second of three files fails; the rows of the first and the third are
\* returned
C7_Witness ==
    /\ load_pc = "returned"
    /\ Len(uploaded_files) = 3
    /\ GoodFiles = {1, 3}
    /\ warnings = <<"f2">>
    /\ loaded.rows = <<[file |-> "f1", row |-> 1], [file |-> "f3", row |-> 1]>>

-----------------------------------------------------------------------------
(* Script runs sharing the cache (SpecCache).  Each run calls               *)
(* load_and_clean_data on its files, stops when it returns None, and calls  *)
(* parse_prompt_optimized on its prompt and the columns of the frame.       *)

Sessions == 1..NumSessions

CacheBatches ==
    { << [name |-> "f1", fails |-> "none", nrows |-> 1, cols |-> SalesTable.cols] >>,
      << [name |-> "f2", fails |-> "none", nrows |-> 1, cols |-> ProfitTable.cols] >>,
      << [name |-> "f3", fails |-> "read", nrows |-> 0, cols |-> <<>>] >> }

CachePrompts ==
    { LiRun \o LaiYuanWenJian,
      RiQi \o XiaoShouE \o <<"2", "0", "2", "5", Nian>> }

NotParsed == [target |-> None, group |-> None, chart |-> "None", stat |-> "",
              filters |-> <<>>]

SessionParseKey(r) ==
    ParseKey(r.prompt, SelectDtypes(r.df, NumericDtypes),
             SelectDtypes(r.df, CategoryDtypes), SelectDtypes(r.df, DateDtypes))

SessionParse(r) ==
    parse_prompt_optimized(r.prompt, SelectDtypes(r.df, NumericDtypes),
                           SelectDtypes(r.df, CategoryDtypes),
                           SelectDtypes(r.df, DateDtypes))

\* the runs are interchangeable: they are listed in the order of their inputs
InputRank(r) ==
    100 * (CHOOSE i \in 1..Len(FileNames) : FileNames[i] = r.files[1].name)
        + Len(r.prompt)

CacheInit ==
    /\ ParseIdle
    /\ FilterIdle
    /\ LoadIdle
    /\ cleaned = <<>>
    /\ pc = "idle"
    /\ error = ""
    /\ executed = {}
    /\ group_col = None
    /\ stat_type = ""
    /\ result_df = NoResult
    /\ session \in [Sessions ->
                       [files : CacheBatches, prompt : CachePrompts, pc : {"load_call"},
                        df : {NotLoaded}, parsed : {NotParsed},
                        load_hit : {FALSE}, parse_hit : {FALSE}]]
    /\ \A s \in Sessions \ {NumSessions} :
          InputRank(session[s]) <= InputRank(session[s + 1])
    /\ load_cache = {}
    /\ parse_cache = {}

Others == <<parseVars, filterVars, mainVars, cleaned, loadVars>>

\* df = load_and_clean_data(uploaded_files): the cache is read
LoadLookup(s) ==
    /\ session[s].pc = "load_call"
    /\ IF Cached(load_cache, LoadKey(session[s].files))
       THEN session' = [session EXCEPT
                           ![s].df = Read(load_cache, LoadKey(session[s].files)),
                           ![s].load_hit = TRUE,
                           ![s].pc = "loaded"]
       ELSE session' = [session EXCEPT ![s].pc = "load_compute"]
    /\ UNCHANGED <<load_cache, parse_cache, Others>>

\* a miss: the function runs
LoadCompute(s) ==
    /\ session[s].pc = "load_compute"
    /\ session' = [session EXCEPT
                      ![s].df = load_and_clean_data(session[s].files).value,
                      ![s].pc = "load_store"]
    /\ UNCHANGED <<load_cache, parse_cache, Others>>

\* and its value is written to the cache
LoadStore(s) ==
    /\ session[s].pc = "load_store"
    /\ load_cache' = Write(load_cache, LoadKey(session[s].files), session[s].df)
    /\ session' = [session EXCEPT ![s].pc = "loaded"]
    /\ UNCHANGED <<parse_cache, Others>>

\* if df is None: st.error(...); return
AllFilesFailed(s) ==
    /\ session[s].pc = "loaded"
    /\ session[s].df.is_none
    /\ session' = [session EXCEPT ![s].pc = "done"]
    /\ UNCHANGED <<load_cache, parse_cache, Others>>

\* parsed = parse_prompt_optimized(user_prompt, ...): the cache is read
ParseLookup(s) ==
    /\ session[s].pc = "loaded"
    /\ ~session[s].df.is_none
    /\ IF Cached(parse_cache, SessionParseKey(session[s]))
       THEN session' = [session EXCEPT
                           ![s].parsed = Read(parse_cache, SessionParseKey(session[s])),
                           ![s].parse_hit = TRUE,
                           ![s].pc = "done"]
       ELSE session' = [session EXCEPT ![s].pc = "parse_compute"]
    /\ UNCHANGED <<load_cache, parse_cache, Others>>

ParseCompute(s) ==
    /\ session[s].pc = "parse_compute"
    /\ session' = [session EXCEPT
                      ![s].parsed = SessionParse(session[s]),
                      ![s].pc = "parse_store"]
    /\ UNCHANGED <<load_cache, parse_cache, Others>>

ParseStore(s) ==
    /\ session[s].pc = "parse_store"
    /\ parse_cache' = Write(parse_cache, SessionParseKey(session[s]), session[s].parsed)
    /\ session' = [session EXCEPT ![s].pc = "done"]
    /\ UNCHANGED <<load_cache, Others>>

\* ttl=CACHE_TTL: an entry expires
ExpireLoad ==
    /\ \E e \in load_cache : load_cache' = load_cache \ {e}
    /\ UNCHANGED <<session, parse_cache, Others>>

ExpireParse ==
    /\ \E e \in parse_cache : parse_cache' = parse_cache \ {e}
    /\ UNCHANGED <<session, load_cache, Others>>

CacheNext ==
    \/ \E s \in Sessions :
          \/ LoadLookup(s)
          \/ LoadCompute(s)
          \/ LoadStore(s)
          \/ AllFilesFailed(s)
          \/ ParseLookup(s)
          \/ ParseCompute(s)
          \/ ParseStore(s)
    \/ ExpireLoad
    \/ ExpireParse

SpecCache == CacheInit /\ [][CacheNext]_vars

-----------------------------------------------------------------------------
(* Claims about the cache (SpecCache) *)

HasFrame(r) == r.pc \in {"load_store", "loaded", "parse_compute", "parse_store", "done"}

HasPlan(r) == r.pc = "parse_store" \/ (r.pc = "done" /\ ~r.df.is_none)

\* C8: with runs racing on the cache without a lock, the last writer
\* winning, every value a run obtains for a key, computed by itself or read
\* from the cache, is the value a fresh computation on the arguments of its
\* call returns.
C8_CachedEqualsFresh ==
    \A s \in Sessions :
        LET r == session[s]
        IN  /\ HasFrame(r) => r.df = load_and_clean_data(r.files).value
            /\ HasPlan(r) =>
                  r.parsed = parse_prompt_optimized(
                                 r.prompt,
                                 SelectDtypes(load_and_clean_data(r.files).value, NumericDtypes),
                                 SelectDtypes(load_and_clean_data(r.files).value, CategoryDtypes),
                                 SelectDtypes(load_and_clean_data(r.files).value, DateDtypes))

\* two runs on the same files and prompt raced: both missed the cache and
\* computed the plan; one has written it, the other is about to overwrite it
C8_Witness ==
    \E s, t \in Sessions :
        /\ s # t
        /\ session[s].files = session[t].files
        /\ session[s].prompt = session[t].prompt
        /\ session[s].pc = "done" /\ ~session[s].parse_hit /\ ~session[s].df.is_none
        /\ session[t].pc = "parse_store" /\ session[t].load_hit
        /\ Cached(parse_cache, SessionParseKey(session[t]))

-----------------------------------------------------------------------------
(* Claims about the analysis request of main (Spec, SpecAggregate) *)

MetricNamed == \E i \in 1..Len(numeric_cols) : Contains(numeric_cols[i], prompt)

DimensionNamed ==
    LET dims == category_cols \o date_cols \o <<LaiYuanWenJian>>
    IN  \E i \in 1..Len(dims) : Contains(dims[i], prompt)

\* C2: when no numeric column name occurs in the text the request ends with
\* NO_METRIC_FOUND; when a metric is found but no dimension column name
\* occurs it ends with NO_DIMENSION_FOUND; in both cases neither filtering
\* nor aggregation runs and no result table is produced.  Filtering and
\* aggregation run only when both were found.
C2_ValidationBeforeExecution ==
    /\ ~MetricNamed =>
          /\ pc \in {"button", "parsed", "done"}
          /\ pc = "done" => error = "NO_METRIC_FOUND"
    /\ (MetricNamed /\ ~DimensionNamed) =>
          /\ pc \in {"button", "parsed", "metric_ok", "done"}
          /\ pc = "done" => error = "NO_DIMENSION_FOUND"
    /\ pc = "done" => (executed = {} /\ result_df = NoResult /\ calls = 0)
    /\ (executed # {} \/ result_df # NoResult) => (MetricNamed /\ DimensionNamed)
    /\ (MetricNamed /\ DimensionNamed) => error = ""

\* a metric but no dimension is named: the request ended with the error
C2_Witness ==
    /\ pc = "done"
    /\ prompt = De \o LiRun \o <<"2", "0", "2", "5", "nian2">>
    /\ error = "NO_DIMENSION_FOUND"
    /\ executed = {}

\* C5: the result table has exactly one row per distinct dimension value of
\* the narrowed rows, the null value included when a narrowed row has a null
\* dimension; each row carries the requested statistic of its group (to two
\* decimals); the rows are in ascending order of the dimension value.
C5_OneRowPerDimensionValue ==
    pc = "aggregated" =>
        LET rows  == filtered_df.rows
            keys  == {rows[i].cells[group_col] : i \in 1..Len(rows)}
            dtype == DtypeOf(df, group_col)
            I     == 1..Len(result_df)
        IN  /\ {result_df[i].key : i \in I} = keys
            /\ Len(result_df) = Cardinality(keys)
            /\ \A i \in I :
                  result_df[i].value =
                      Statistic(stat_type,
                                GroupValues(rows, group_col, result_df[i].key, target_col))
            /\ \A i, j \in I :
                  (i < j /\ result_df[i].key # <<>> /\ result_df[j].key # <<>>)
                      => KeyRank(dtype, result_df[i].key[1])
                           < KeyRank(dtype, result_df[j].key[1])

-----------------------------------------------------------------------------
(* Claims about apply_filters_optimized (SpecFilter) *)

Min(a, b) == IF a <= b THEN a ELSE b

InYear(row, col, y) == row.cells[col] # <<>> /\ row.cells[col][1].year = y

InMonth(row, col, m) == row.cells[col] # <<>> /\ row.cells[col][1].month = m

\* the row satisfies every row-narrowing (date) filter of the list
Survives(row) ==
    \A i \in 1..Len(filters) :
        Len(filters[i]) = 3 =>
            /\ filters[i][2] = "year" => InYear(row, filters[i][1], filters[i][3])
            /\ filters[i][2] = "month" => InMonth(row, filters[i][1], filters[i][3])

Returned == {filtered_df.rows[k] : k \in 1..Len(filtered_df.rows)}

\* C1: with a year filter (D, year, Y) and a top-N filter, the call returns,
\* without raising, exactly the N rows with the largest metric among the rows
\* whose D has year Y (all of them when there are fewer than N).
C1_YearThenTopN ==
    \A n \in 1..2 :
        (calls > 0 /\ filters = << <<RiQi, "year", 2025>>, <<"top_n", n>> >>) =>
            LET OfYear == {df.rows[i] : i \in {j \in 1..Len(df.rows) :
                                                  InYear(df.rows[j], RiQi, 2025)}}
            IN  /\ ~filtered_df.raised
                /\ Returned \subseteq OfYear
                /\ Len(filtered_df.rows) = Min(n, Cardinality(OfYear))
                /\ Cardinality(Returned) = Len(filtered_df.rows)
                /\ \A r \in Returned, o \in OfYear \ Returned :
                      r.cells[target_col][1] >= o.cells[target_col][1]

\* C9: a table returned by apply_filters_optimized has at most
\* MAX_CHART_POINTS rows, each a row of the input that satisfies all the date
\* filters; when more rows than the ceiling survive the filters, exactly
\* MAX_CHART_POINTS distinct ones are kept, otherwise all of them, in order;
\* and a second call with the same table and filters returns the same rows.
C9_CeilingAndSeededSample ==
    (calls > 0 /\ ~filtered_df.raised) =>
        LET surviving == SelectSeq(df.rows, Survives)
        IN  /\ Len(filtered_df.rows) <= MAX_CHART_POINTS
            /\ \A r \in Returned :
                  /\ \E i \in 1..Len(df.rows) : df.rows[i] = r
                  /\ Survives(r)
            /\ Cardinality(Returned) = Len(filtered_df.rows)
            /\ Len(surviving) > MAX_CHART_POINTS
                  => Len(filtered_df.rows) = MAX_CHART_POINTS
            /\ Len(surviving) <= MAX_CHART_POINTS => filtered_df.rows = surviving
            /\ calls > 1 => previous_df = filtered_df

\* two calls on a table of which more rows than the ceiling are of 2025
C9_Witness ==
    /\ calls = 2
    /\ filters = << <<RiQi, "year", 2025>> >>
    /\ Len(SelectSeq(df.rows, Survives)) > MAX_CHART_POINTS
    /\ ~filtered_df.raised
    /\ Len(filtered_df.rows) = MAX_CHART_POINTS

-----------------------------------------------------------------------------
(* Claims about parse_prompt_optimized (SpecParse) *)

Has(kw) == Contains(kw, prompt)

IsFirstMatch(x, cols, text) ==
    \/ /\ x = None
       /\ \A i \in 1..Len(cols) : ~Contains(cols[i], text)
    \/ \E i \in 1..Len(cols) :
          /\ cols[i] = x
          /\ Contains(x, text)
          /\ \A j \in 1..(i - 1) : ~Contains(cols[j], text)

\* C3, as stated: the statistic follows the priority mean, median, max, min,
\* count, and is sum only when none of their keywords occurs in the text.
C3_StatPriorityAsStated ==
    parse_pc = "returned" =>
        parsed.stat =
            IF Has(<<"ping2", "jun1", "zhi2">>) \/ Has(<<"jun1", "zhi2">>) THEN "mean"
            ELSE IF Has(<<"zhong1", "wei4", "shu4">>) THEN "median"
            ELSE IF Has(<<"zui4", "da4", "zhi2">>) THEN "max"
            ELSE IF Has(<<"zui4", "xiao3", "zhi2">>) THEN "min"
            ELSE IF Has(<<"shu4", "liang4">>) \/ Has(<<"ji4", "shu4">>) THEN "count"
            ELSE "sum"

\* C3, amended: the sum keyword "zong3 he2" has the highest priority; then
\* mean, median, max, min, count; sum is also the default when no keyword
\* occurs.  The position of the keywords in the text plays no part.
C3_StatPriorityWithSumFirst ==
    parse_pc = "returned" =>
        parsed.stat =
            IF Has(<<"zong3", "he2">>) THEN "sum"
            ELSE IF Has(<<"ping2", "jun1", "zhi2">>) \/ Has(<<"jun1", "zhi2">>) THEN "mean"
            ELSE IF Has(<<"zhong1", "wei4", "shu4">>) THEN "median"
            ELSE IF Has(<<"zui4", "da4", "zhi2">>) THEN "max"
            ELSE IF Has(<<"zui4", "xiao3", "zhi2">>) THEN "min"
            ELSE IF Has(<<"shu4", "liang4">>) \/ Has(<<"ji4", "shu4">>) THEN "count"
            ELSE "sum"

\* the min keyword, then the max keyword, then the mean keyword: mean wins
C3_Witness ==
    /\ parse_pc = "returned"
    /\ prompt = <<"zui4", "xiao3", "zhi2", "zui4", "da4", "zhi2", "jun1", "zhi2">>
    /\ parsed.stat = "mean"

\* C4: the metric is the first numeric column, in catalogue order, whose name
\* occurs in the text; the dimension is the first such column of the
\* categorical columns, then the date columns, then the source-file column;
\* so the metric is a numeric column or absent, and a date column is the
\* dimension only when no categorical column name occurs in the text.
C4_FirstMatchInDeclaredOrder ==
    parse_pc = "returned" =>
        /\ IsFirstMatch(parsed.target, numeric_cols, prompt)
        /\ IsFirstMatch(parsed.group,
                        category_cols \o date_cols \o <<LaiYuanWenJian>>, prompt)
        /\ \/ parsed.target = None
           \/ \E i \in 1..Len(numeric_cols) : numeric_cols[i] = parsed.target
        /\ (\E i \in 1..Len(date_cols) : date_cols[i] = parsed.group)
              => \A i \in 1..Len(category_cols) : ~Has(category_cols[i])

\* the text names the second numeric column before the first one, and a date
\* column but no categorical column
C4_Witness ==
    /\ parse_pc = "returned"
    /\ prompt = RiQi \o LiRun \o XiaoShouE
    /\ numeric_cols = <<XiaoShouE, LiRun>>
    /\ parsed.target = XiaoShouE
    /\ parsed.group = RiQi

IsDateFilter(f) == Len(f) = 3
IsYearFilter(f) == Len(f) = 3 /\ f[2] = "year"
IsMonthFilter(f) == Len(f) = 3 /\ f[2] = "month"

HasYearToken ==
    \E i \in 1..(Len(prompt) - 4) :
        /\ \A k \in i..(i + 3) : prompt[k] \in Digits
        /\ prompt[i + 4] = "nian2"

HasMonthToken ==
    \E i \in 1..(Len(prompt) - 1) : prompt[i] \in Digits /\ prompt[i + 1] = "yue4"

\* C10: date filters are emitted for the first date column, in catalogue
\* order, whose name occurs in the text, and for no other: a year filter iff
\* the text has a four-digit year token, a month filter iff it has a month
\* token, the year filter before the month filter and both before any rank
\* filter; when no date column name occurs, no date filter is emitted.
C10_DateFiltersFirstDateColumn ==
    parse_pc = "returned" =>
        LET fs == parsed.filters
            I  == 1..Len(fs)
        IN  /\ \A i \in I :
                  IsDateFilter(fs[i]) =>
                      /\ fs[i][1] # None
                      /\ IsFirstMatch(fs[i][1], date_cols, prompt)
            /\ (\E i \in I : IsYearFilter(fs[i]))
                  <=> (HasYearToken /\ \E d \in 1..Len(date_cols) : Has(date_cols[d]))
            /\ (\E i \in I : IsMonthFilter(fs[i]))
                  <=> (HasMonthToken /\ \E d \in 1..Len(date_cols) : Has(date_cols[d]))
            /\ \A i, j \in I :
                  /\ IsYearFilter(fs[i]) /\ IsYearFilter(fs[j]) => i = j
                  /\ IsMonthFilter(fs[i]) /\ IsMonthFilter(fs[j]) => i = j
                  /\ IsYearFilter(fs[i]) /\ IsMonthFilter(fs[j]) => i < j
                  /\ IsDateFilter(fs[i]) /\ ~IsDateFilter(fs[j]) => i < j

\* both date columns are named, the second of the catalogue first, with a
\* year and a month token
C10_Witness ==
    /\ parse_pc = "returned"
    /\ date_cols = <<RiQi, ShiJian>>
    /\ prompt = ShiJian \o RiQi \o <<"2", "0", "2", "5", "nian2", "1", "yue4">>
    /\ parsed.filters = << <<RiQi, "year", 2025>>, <<RiQi, "month", 1>> >>

====
